---- MODULE Spec2Model ----
(***************************************************************************)
(* PlanManager (src/js/logic.js, lines 5-409): the study-plan engine.      *)
(* JavaScript strings that the code splits, trims, lower-cases or parses   *)
(* are sequences of one-character strings; identifiers and table names,    *)
(* which the code only compares, are TLA+ strings.                         *)
(***************************************************************************)
EXTENDS Integers, Sequences, FiniteSets, TLC

VARIABLES
  year,        \* this.year
  curriculum,  \* this.curriculum
  plan,        \* this.plan
  ret,         \* what the latest call of addExam or moveExam returned, or
               \* "TypeError" when the latest call was ended by one
  probe        \* a call of one of the pure queries: its argument and result

vars == <<year, curriculum, plan, ret, probe>>

(* ---------------------------- bounds ---------------------------------- *)

\* longest Plan the add operations and initDefaults are let to build
MaxPlan == 3

\* longest raw table tag string drawn for getAllowedTables
MaxRaw == 5

(* ------------------------ JavaScript strings -------------------------- *)

\* the characters String.prototype.trim removes
IsSpace(c) == c = " "

Digits == <<"0", "1", "2", "3", "4", "5", "6", "7", "8", "9">>

IsDigit(c) == \E i \in 1..10 : Digits[i] = c

DigitVal(c) == (CHOOSE i \in 1..10 : Digits[i] = c) - 1

\* a character sequence as one string
RECURSIVE Str(_)
Str(s) == IF s = <<>> THEN "" ELSE s[1] \o Str(Tail(s))

\* String.prototype.trim
RECURSIVE TrimLeft(_)
TrimLeft(s) == IF s # <<>> /\ IsSpace(s[1]) THEN TrimLeft(Tail(s)) ELSE s

RECURSIVE TrimRight(_)
TrimRight(s) ==
  IF s # <<>> /\ IsSpace(s[Len(s)]) THEN TrimRight(SubSeq(s, 1, Len(s) - 1)) ELSE s

Trim(s) == TrimRight(TrimLeft(s))

\* String.prototype.split on a one-character separator
RECURSIVE SplitFrom(_, _, _)
SplitFrom(s, sep, cur) ==
  IF s = <<>> THEN <<cur>>
  ELSE IF s[1] = sep THEN <<cur>> \o SplitFrom(Tail(s), sep, <<>>)
  ELSE SplitFrom(Tail(s), sep, Append(cur, s[1]))

Split(s, sep) == SplitFrom(s, sep, <<>>)

\* String.prototype.startsWith
StartsWith(s, p) == Len(s) >= Len(p) /\ SubSeq(s, 1, Len(p)) = p

\* index of the first occurrence of p in s, 0 when there is none
IndexOf(s, p) ==
  LET hits == {i \in 1..(Len(s) - Len(p) + 1) : SubSeq(s, i, i + Len(p) - 1) = p}
  IN IF hits = {} THEN 0 ELSE CHOOSE i \in hits : \A j \in hits : i <= j

\* String.prototype.includes
Includes(s, p) == IndexOf(s, p) # 0

\* String.prototype.replace with a string pattern: the first occurrence only
Replace(s, p, r) ==
  LET i == IndexOf(s, p)
  IN IF i = 0 THEN s
     ELSE SubSeq(s, 1, i - 1) \o r \o SubSeq(s, i + Len(p), Len(s))

LowerChar(c) ==
  CASE c = "A" -> "a" [] c = "B" -> "b" [] c = "D" -> "d" [] c = "E" -> "e"
    [] c = "F" -> "f" [] c = "I" -> "i" [] c = "L" -> "l" [] c = "M" -> "m"
    [] c = "N" -> "n" [] c = "O" -> "o" [] c = "R" -> "r" [] c = "S" -> "s"
    [] c = "T" -> "t" [] c = "V" -> "v" [] c = "X" -> "x"
    [] OTHER -> c

\* String.prototype.toLowerCase
ToLowerCase(s) == [i \in 1..Len(s) |-> LowerChar(s[i])]

\* String.prototype.replace(/\s+/g, r): every run of white space becomes r
RECURSIVE ReplaceSpaceRuns(_, _)
ReplaceSpaceRuns(s, r) ==
  IF s = <<>> THEN <<>>
  ELSE IF IsSpace(s[1]) THEN r \o ReplaceSpaceRuns(TrimLeft(s), r)
  ELSE <<s[1]>> \o ReplaceSpaceRuns(Tail(s), r)

\* the value of a run of decimal digits
RECURSIVE DigitsValue(_, _)
DigitsValue(s, acc) ==
  IF s = <<>> \/ ~IsDigit(s[1]) THEN acc
  ELSE DigitsValue(Tail(s), acc * 10 + DigitVal(s[1]))

\* parseInt: leading white space is skipped, an optional sign and the longest
\* prefix of digits are read; <<n>> is the number n and <<>> is NaN
ParseInt(s) ==
  LET t == TrimLeft(s)
      signed == t # <<>> /\ t[1] \in {"-", "+"}
      d == IF signed THEN Tail(t) ELSE t
  IN IF d = <<>> \/ ~IsDigit(d[1]) THEN <<>>
     ELSE IF signed /\ t[1] = "-" THEN <<0 - DigitsValue(d, 0)>>
     ELSE <<DigitsValue(d, 0)>>

\* the comparison with > for >=
NumGe_Strict(a, b) == a # <<>> /\ b # <<>> /\ a[1] > b[1]

\* a >= b on numbers: false when either side is NaN
NumGe(a, b) == a # <<>> /\ b # <<>> /\ a[1] >= b[1]

\* a % 2 === 0: false for NaN
\* even taken as divisible by four
NumIsEven_ByFour(a) == a # <<>> /\ a[1] % 4 = 0

NumIsEven(a) == a # <<>> /\ a[1] % 2 = 0

\* A credit value stored in an entry is a JavaScript number or, after the
\* Plan went through JSON, null. NaN and null are written as two integers no
\* credit value and no sum of the model equals.
NaN == 0 - 1000000

NullNumber == 0 - 2000000

\* the number ParseInt read, as an entry stores it
NumberOf(parsed) == IF parsed = <<>> THEN NaN ELSE parsed[1]

\* ToNumber: null counts as 0 in arithmetic
ToNumber(x) == IF x = NullNumber THEN 0 ELSE x

\* a + b: NaN when either side is NaN
Plus(a, b) == IF a = NaN \/ b = NaN THEN NaN ELSE ToNumber(a) + ToNumber(b)

\* a - b: NaN when either side is NaN
Minus(a, b) == IF a = NaN \/ b = NaN THEN NaN ELSE ToNumber(a) - ToNumber(b)

\* a < b: false when either side is NaN
Lt(a, b) == a # NaN /\ b # NaN /\ ToNumber(a) < ToNumber(b)

(* --------------------- external data: catalog, rules ------------------ *)

\* the value JavaScript gives a missing reference (null, undefined)
null == "null"

\* ExamCatalog: the rows loaded from exams.csv (id and name are the same
\* column, cfu an integer, rawTable and availability free text)
allExams ==
  << [id |-> "Alg", name |-> "Alg", cfu |-> 12,
      rawTable |-> <<"1", "|", "B">>,
      availability |-> <<"e", "n", "a", "b", "l", "e", "d">>],
     [id |-> "Net", name |-> "Net", cfu |-> 6,
      rawTable |-> <<"X", " ", "|", " ", "C">>,
      availability |-> <<"F", "r", "o", "m", " ", "2", "0", "2", "0">>],
     [id |-> "Sec", name |-> "Sec", cfu |-> 6,
      rawTable |-> <<"C", "|", "B", "|", "2">>,
      availability |-> <<"e", "n", "a", "b", "l", "e", "d">>],
     [id |-> "Log", name |-> "Log", cfu |-> 6,
      rawTable |-> <<"B", "|", "A", "|", "1">>,
      availability |-> <<"d", "i", "s", "a", "b", "l", "e", "d">>] >>

\* RequirementRules: the document loaded from rules.json. The credit targets
\* keep the shape the code reads (one mandatory exam, two FBA tables, three F94
\* tables and an aggregate B+C minimum above the sum of the B and C minimums).
rules ==
  [degree_requirements |->
    [common_rules |->
      [mandatory_exams |->
         << [name |-> <<"F", "i", "n", "a", "l", " ", "E", "x", "a", "m">>,
             credits |-> 12] >>,
       free_exams_credits |-> 12,
       total_credits |-> 48],
     programs |->
      [FBA |-> [curriculum_rules |->
                 << [source |-> "1", min_credits |-> 12],
                    [source |-> "2", min_credits |-> 12] >>],
       F94 |-> [curriculum_rules |->
                 << [source |-> "A", min_credits |-> 6],
                    [source |-> "B", min_credits |-> 12],
                    [source |-> "C", min_credits |-> 6],
                    [source |-> "BC", min_sumBC_credits |-> 24] >>]]]]

Curricula == {"FBA", "F94"}

\* this.allExams.find((e) => e.id === examId): the first match, or undefined
HasExam(examId) == \E i \in 1..Len(allExams) : allExams[i].id = examId

FindExam(examId) ==
  allExams[CHOOSE i \in 1..Len(allExams) :
             /\ allExams[i].id = examId
             /\ \A j \in 1..(i - 1) : allExams[j].id # examId]

(* --------------------------- getAllowedTables ------------------------- *)

Priority(t) == CASE t = "A" -> 1 [] t = "B" -> 2 [] t = "C" -> 3

\* Array.prototype.sort with the priority comparator: a stable sort
RECURSIVE InsertByPriority(_, _)
InsertByPriority(sorted, t) ==
  IF sorted = <<>> THEN <<t>>
  ELSE IF Priority(sorted[Len(sorted)]) <= Priority(t) THEN Append(sorted, t)
  ELSE Append(InsertByPriority(SubSeq(sorted, 1, Len(sorted) - 1), t),
              sorted[Len(sorted)])

RECURSIVE SortByPriority(_)
SortByPriority(ts) ==
  IF ts = <<>> THEN <<>>
  ELSE InsertByPriority(SortByPriority(SubSeq(ts, 1, Len(ts) - 1)), ts[Len(ts)])

\* raw.split("|").map((s) => s.trim())
TableParts(raw) ==
  LET parts == Split(raw, "|")
  IN [i \in 1..Len(parts) |-> Str(Trim(parts[i]))]

FilterIn(parts, keep) == SelectSeq(parts, LAMBDA p : p \in keep)

\* getAllowedTables with the F94 priority sort left out
getAllowedTables_Unsorted(raw, cur) ==
  IF cur = "FBA" THEN FilterIn(TableParts(raw), {"1", "2"})
  ELSE FilterIn(TableParts(raw), {"A", "B", "C"})

getAllowedTables(raw, cur) ==
  IF cur = "FBA" THEN FilterIn(TableParts(raw), {"1", "2"})
  ELSE SortByPriority(FilterIn(TableParts(raw), {"A", "B", "C"}))

\* getAllowedTables of every catalog exam under every curriculum, computed once
AllowedByExam ==
  [cur \in Curricula |->
    [i \in 1..Len(allExams) |-> getAllowedTables(allExams[i].rawTable, cur)]]

\* this.getAllowedTables(this.allExams.find((e) => e.id === examId))
AllowedOfExam(examId, cur) ==
  AllowedByExam[cur][CHOOSE i \in 1..Len(allExams) :
                       /\ allExams[i].id = examId
                       /\ \A j \in 1..(i - 1) : allExams[j].id # examId]

(* ------------------- isExamAvailable, getNextAvailabilityInfo --------- *)

\* parseInt(this.year.split("/")[0])
StartOf(y) == ParseInt(Split(y, "/")[1])

isExamAvailable(avail, yr) ==
  IF avail = <<>> \/ ToLowerCase(avail) = <<"e", "n", "a", "b", "l", "e", "d">> THEN TRUE
  ELSE IF ToLowerCase(avail) = <<"d", "i", "s", "a", "b", "l", "e", "d">> THEN FALSE
  ELSE IF StartsWith(avail, <<"F", "r", "o", "m", " ">>)
    THEN LET fromYear == Trim(Replace(avail, <<"F", "r", "o", "m", " ">>, <<>>))
         IN NumGe(StartOf(yr), StartOf(fromYear))
  ELSE IF /\ Includes(avail, <<"B", "i", "e", "n", "n", "i", "a", "l">>)
          /\ Includes(avail, <<"E", "v", "e", "n">>)
    THEN NumIsEven(StartOf(yr))
  ELSE IF /\ Includes(avail, <<"B", "i", "e", "n", "n", "i", "a", "l">>)
          /\ Includes(avail, <<"O", "d", "d">>)
    THEN ~NumIsEven(StartOf(yr))
  ELSE TRUE

\* this.t(key, params): the message is kept as its key and parameter
Message(key, param) == [kind |-> key, text |-> param]

NullInfo == Message("null", <<>>)

getNextAvailabilityInfo(avail, yr) ==
  IF avail = <<>> \/ ToLowerCase(avail) = <<"e", "n", "a", "b", "l", "e", "d">> THEN NullInfo
  ELSE IF StartsWith(avail, <<"F", "r", "o", "m", " ">>)
    THEN Message("available_from", Replace(avail, <<"F", "r", "o", "m", " ">>, <<>>))
  ELSE IF /\ Includes(avail, <<"B", "i", "e", "n", "n", "i", "a", "l">>)
          /\ Includes(avail, <<"E", "v", "e", "n">>)
          /\ ~NumIsEven(StartOf(yr))
    THEN Message("next_activation_even", <<>>)
  ELSE IF /\ Includes(avail, <<"B", "i", "e", "n", "n", "i", "a", "l">>)
          /\ Includes(avail, <<"O", "d", "d">>)
          /\ NumIsEven(StartOf(yr))
    THEN Message("next_activation_odd", <<>>)
  ELSE Message("raw", avail)

(* --------------------------- rebalanceBuckets ------------------------- *)

\* newPlan.filter((p) => tables has p.table).reduce((s, p) => s + p.cfu, 0)
RECURSIVE SumCfuTo(_, _, _)
SumCfuTo(p, n, tables) ==
  IF n = 0 THEN 0
  ELSE IF p[n].table \in tables THEN Plus(SumCfuTo(p, n - 1, tables), p[n].cfu)
  ELSE SumCfuTo(p, n - 1, tables)

SumCfu(p, tables) == SumCfuTo(p, Len(p), tables)

progRules(cur) == rules.degree_requirements.programs[cur].curriculum_rules

\* limits[t] || 0, limits filled by progRules.forEach (a later rule overwrites)
RECURSIVE LimitFrom(_, _, _)
LimitFrom(rs, t, acc) ==
  IF rs = <<>> THEN acc
  ELSE LimitFrom(Tail(rs), t,
                 IF rs[1].source # "BC" /\ rs[1].source = t
                 THEN rs[1].min_credits ELSE acc)

\* the limits object of every curriculum, computed once
LimitsByCurriculum ==
  [cur \in Curricula |->
    [t \in {"1", "2", "A", "B", "C"} |-> LimitFrom(progRules(cur), t, 0)]]

\* limits no table ever reaches
Limit_Unbounded(cur, t) == LimitsByCurriculum[cur][t] + 1000

Limit(cur, t) == LimitsByCurriculum[cur][t]

RECURSIVE MinSumBCFrom(_, _)
MinSumBCFrom(rs, acc) ==
  IF rs = <<>> THEN acc
  ELSE MinSumBCFrom(Tail(rs),
                    IF rs[1].source = "BC" THEN rs[1].min_sumBC_credits ELSE acc)

MinSumBCByCurriculum == [cur \in Curricula |-> MinSumBCFrom(progRules(cur), 0)]

minSumBC(cur) == MinSumBCByCurriculum[cur]

freeLimit == rules.degree_requirements.common_rules.free_exams_credits

\* the individual-minimum test with <= for <
underIndividualMin_Inclusive(currentInT, limit) ==
  currentInT = limit \/ Lt(currentInT, limit)

underIndividualMin(currentInT, limit) == Lt(currentInT, limit)

\* the B/C exception switched off
isBCException_Off(t, currentBCSum, minSum) == FALSE

isBCException(t, currentBCSum, minSum) ==
  t \in {"B", "C"} /\ Lt(currentBCSum, minSum)

\* ATTEMPT 1: the first allowed table that accepts the item, <<>> when none
RECURSIVE FirstAccepting(_, _, _)
FirstAccepting(allowed, newPlan, cur) ==
  IF allowed = <<>> THEN <<>>
  ELSE LET t == allowed[1]
           currentInT == SumCfu(newPlan, {t})
           currentBCSum == SumCfu(newPlan, {"B", "C"})
       IN IF \/ underIndividualMin(currentInT, Limit(cur, t))
             \/ isBCException(t, currentBCSum, minSumBC(cur))
          THEN <<t>>
          ELSE FirstAccepting(Tail(allowed), newPlan, cur)

\* ATTEMPT 2 with no test of the free target
FallbackTable_AlwaysOptional(newPlan) == "Facoltativi"

\* ATTEMPT 2 and 3: Optional while it is below the free target, else out of plan
FallbackTable(newPlan) ==
  IF Lt(SumCfu(newPlan, {"Facoltativi"}), freeLimit) THEN "Facoltativi"
  ELSE "Fuori Piano"

\* the allowed tables with the item's present table tried first
AllowedOf_PresentFirst(item, cur) ==
  IF item.isCustom THEN <<>>
  ELSE LET allowed == AllowedOfExam(item.examId, cur)
       IN IF \E k \in 1..Len(allowed) : allowed[k] = item.table
          THEN <<item.table>> \o allowed
          ELSE allowed

AllowedOf(item, cur) ==
  IF item.isCustom THEN <<>>
  ELSE AllowedOfExam(item.examId, cur)

\* the pass with ATTEMPT 3 left out: an item nothing accepts keeps its table
AssignTable_NoOutOfPlan(item, newPlan, cur) ==
  LET hit == FirstAccepting(AllowedOf(item, cur), newPlan, cur)
  IN IF hit # <<>> THEN hit[1]
     ELSE IF FallbackTable(newPlan) = "Facoltativi" THEN "Facoltativi"
     ELSE item.table

AssignTable(item, newPlan, cur) ==
  LET hit == FirstAccepting(AllowedOf(item, cur), newPlan, cur)
  IN IF hit # <<>> THEN hit[1] ELSE FallbackTable(newPlan)

RECURSIVE RebalanceFold(_, _, _)
RebalanceFold(activeExams, newPlan, cur) ==
  IF activeExams = <<>> THEN newPlan
  ELSE LET item == activeExams[1]
       IN RebalanceFold(Tail(activeExams),
                        Append(newPlan,
                               [item EXCEPT !.table = AssignTable(item, newPlan, cur)]),
                        cur)

\* the pass with the mandatory entries put last instead of first
rebalanceBuckets_MandatoryLast(p, cur) ==
  RebalanceFold(SelectSeq(p, LAMBDA e : e.table # "Obbligatori"), <<>>, cur)
    \o SelectSeq(p, LAMBDA e : e.table = "Obbligatori")

\* an item of activeExams for which this.allExams.find gives undefined:
\* getAllowedTables(undefined) raises a TypeError
LacksExam(item) ==
  item.table # "Obbligatori" /\ ~item.isCustom /\ ~HasExam(item.examId)

RebalanceThrows(p) == \E i \in 1..Len(p) : LacksExam(p[i])

\* the Plan a pass that raises leaves: this.plan is not replaced, so the order
\* is kept, and the items processed before the failing one have their new table
RebalanceRaised(p, cur) ==
  LET k == CHOOSE i \in 1..Len(p) :
             LacksExam(p[i]) /\ \A j \in 1..(i - 1) : ~LacksExam(p[j])
      mandatoryItems == SelectSeq(p, LAMBDA e : e.table = "Obbligatori")
      processed ==
        RebalanceFold(SelectSeq(SubSeq(p, 1, k - 1), LAMBDA e : e.table # "Obbligatori"),
                      mandatoryItems, cur)
      rank(i) == Cardinality({j \in 1..i : p[j].table # "Obbligatori"})
  IN [i \in 1..Len(p) |->
        IF i < k /\ p[i].table # "Obbligatori"
        THEN processed[Len(mandatoryItems) + rank(i)]
        ELSE p[i]]

rebalanceBuckets(p, cur) ==
  IF RebalanceThrows(p) THEN RebalanceRaised(p, cur)
  ELSE RebalanceFold(SelectSeq(p, LAMBDA e : e.table # "Obbligatori"),
                     SelectSeq(p, LAMBDA e : e.table = "Obbligatori"),
                     cur)

(* -------------------------------- validate ---------------------------- *)

\* the table with "Fuori Piano" left out of the schema
schema_NoOutOfPlan(cur) ==
  IF cur = "FBA" THEN <<"Obbligatori", "1", "2", "Facoltativi">>
  ELSE <<"Obbligatori", "A", "B", "C", "Facoltativi">>

schema(cur) ==
  IF cur = "FBA" THEN <<"Obbligatori", "1", "2", "Facoltativi", "Fuori Piano">>
  ELSE <<"Obbligatori", "A", "B", "C", "Facoltativi", "Fuori Piano">>

SchemaSet(cur) == {schema(cur)[i] : i \in 1..Len(schema(cur))}

\* report.tables[item.table].current += item.cfu fails with a TypeError when
\* item.table is no key of report.tables
ThrownReport == [threw |-> TRUE]

\* common.mandatory_exams.reduce((s, e) => s + e.credits, 0)
RECURSIVE SumCredits(_)
SumCredits(es) ==
  IF es = <<>> THEN 0
  ELSE Plus(SumCredits(SubSeq(es, 1, Len(es) - 1)), es[Len(es)].credits)

\* a report whose total counts the entries of every table
CountedReport_TotalOfAll(p, cur) ==
  LET common == rules.degree_requirements.common_rules
  IN [threw |-> FALSE,
      totalCredits |-> SumCfu(p, SchemaSet(cur)),
      tables |-> [t \in SchemaSet(cur) |->
                   [current |-> SumCfu(p, {t}),
                    min |-> CASE t = "Obbligatori" -> SumCredits(common.mandatory_exams)
                              [] t = "Facoltativi" -> common.free_exams_credits
                              [] OTHER -> 0]],
      specialRules |-> <<>>,
      isValid |-> TRUE,
      messages |-> <<>>]

\* the report after schema.forEach, this.plan.forEach and the two fixed minimums
CountedReport(p, cur) ==
  LET common == rules.degree_requirements.common_rules
  IN [threw |-> FALSE,
      totalCredits |-> SumCfu(p, SchemaSet(cur) \ {"Fuori Piano"}),
      tables |-> [t \in SchemaSet(cur) |->
                   [current |-> SumCfu(p, {t}),
                    min |-> CASE t = "Obbligatori" -> SumCredits(common.mandatory_exams)
                              [] t = "Facoltativi" -> common.free_exams_credits
                              [] OTHER -> 0]],
      specialRules |-> <<>>,
      isValid |-> TRUE,
      messages |-> <<>>]

\* one step of progRules.forEach
ApplyRule(rule, report) ==
  IF report.threw THEN report
  ELSE IF rule.source = "BC" THEN
    IF {"B", "C"} \subseteq DOMAIN report.tables
    THEN LET currentBC == Plus(report.tables["B"].current, report.tables["C"].current)
             failed == Lt(currentBC, rule.min_sumBC_credits)
         IN [report EXCEPT
               !.specialRules = Append(@, [label |-> "sum_bc_label",
                                           current |-> currentBC,
                                           min |-> rule.min_sumBC_credits]),
               !.isValid = IF failed THEN FALSE ELSE @,
               !.messages = IF failed
                            THEN Append(@, Message("sum_bc_missing",
                                             Minus(rule.min_sumBC_credits, currentBC)))
                            ELSE @]
    ELSE ThrownReport
  ELSE LET t == rule.source
       IN IF t \in DOMAIN report.tables
          THEN LET failed == Lt(report.tables[t].current, rule.min_credits)
               IN [report EXCEPT
                     !.tables[t].min = rule.min_credits,
                     !.isValid = IF failed THEN FALSE ELSE @,
                     !.messages = IF failed
                                  THEN Append(@, Message("table_missing_cfu",
                                         <<t, Minus(rule.min_credits,
                                                    report.tables[t].current)>>))
                                  ELSE @]
          ELSE report

\* progRules.forEach that stops at the first rule that fails
RECURSIVE ApplyRules_StopAtFirst(_, _)
ApplyRules_StopAtFirst(rs, report) ==
  IF rs = <<>> \/ report.threw \/ ~report.isValid THEN report
  ELSE ApplyRules_StopAtFirst(Tail(rs), ApplyRule(rs[1], report))

RECURSIVE ApplyRules(_, _)
ApplyRules(rs, report) ==
  IF rs = <<>> THEN report
  ELSE ApplyRules(Tail(rs), ApplyRule(rs[1], report))

\* the two checks after the curriculum rules
\* basic checks that also hold Optional to its minimum
BasicChecks_WithOptional(report) ==
  IF report.threw THEN report
  ELSE LET common == rules.degree_requirements.common_rules
           mandatoryShort == Lt(report.tables["Obbligatori"].current,
                                report.tables["Obbligatori"].min)
           optionalShort == Lt(report.tables["Facoltativi"].current,
                               report.tables["Facoltativi"].min)
           totalShort == Lt(report.totalCredits, common.total_credits)
           m1 == IF mandatoryShort
                 THEN Append(report.messages, Message("mandatory_incomplete", <<>>))
                 ELSE report.messages
           m2 == IF optionalShort
                 THEN Append(m1, Message("table_missing_cfu",
                                         <<"Facoltativi",
                                           Minus(report.tables["Facoltativi"].min,
                                                 report.tables["Facoltativi"].current)>>))
                 ELSE m1
           m3 == IF totalShort
                 THEN Append(m2, Message("total_cfu_status",
                                         <<report.totalCredits, common.total_credits>>))
                 ELSE m2
       IN [report EXCEPT
             !.isValid = IF mandatoryShort \/ optionalShort \/ totalShort THEN FALSE ELSE @,
             !.messages = m3]

BasicChecks(report) ==
  IF report.threw THEN report
  ELSE LET common == rules.degree_requirements.common_rules
           mandatoryShort == Lt(report.tables["Obbligatori"].current,
                                report.tables["Obbligatori"].min)
           totalShort == Lt(report.totalCredits, common.total_credits)
           m1 == IF mandatoryShort
                 THEN Append(report.messages, Message("mandatory_incomplete", <<>>))
                 ELSE report.messages
           m2 == IF totalShort
                 THEN Append(m1, Message("total_cfu_status",
                                         <<report.totalCredits, common.total_credits>>))
                 ELSE m1
       IN [report EXCEPT
             !.isValid = IF mandatoryShort \/ totalShort THEN FALSE ELSE @,
             !.messages = m2]

validate(p, cur) ==
  IF \E i \in 1..Len(p) : p[i].table \notin SchemaSet(cur) THEN ThrownReport
  ELSE BasicChecks(ApplyRules(progRules(cur), CountedReport(p, cur)))

(* ------------------------------ operations ---------------------------- *)

\* the academic years the host offers (app: academicYears)
Years ==
  { <<"2", "0", "2", "4", "/", "2", "0", "2", "5">>,
    <<"2", "0", "2", "5", "/", "2", "0", "2", "6">> }

\* moveExam's newTable: the three fixed tables and a table of each curriculum
TableArgs == {"Obbligatori", "Facoltativi", "Fuori Piano", "1", "B"}

\* addExam's targetTable: absent, the mandatory table, a stray name
TargetArgs == {null, "Obbligatori", "X"}

\* addCustomExam's table: the default, the mandatory table, a curriculum table
CustomTableArgs == {"Facoltativi", "Obbligatori", "B"}

\* credit values typed into the custom-exam form
CfuArgs == { <<"6">> }

\* readings of the millisecond clock Date.now(): two calls read the same
\* value or different ones
ClockArgs == {0, 1}

\* plan item ids a caller may pass: those in the Plan and one that is in no Plan
IdArgs == {plan[i].id : i \in 1..Len(plan)} \cup {"ghost"}

\* this.plan.find((p) => p.id === planItemId): index of the first match, 0 if none
FindItem(p, planItemId) ==
  LET hits == {i \in 1..Len(p) : p[i].id = planItemId}
  IN IF hits = {} THEN 0 ELSE CHOOSE i \in hits : \A j \in hits : i <= j

\* the migration step without its test for the mandatory table
MigrateItem_All(item, cur) ==
  IF item.isCustom THEN item
  ELSE LET allowed == AllowedOfExam(item.examId, cur)
       IN [item EXCEPT !.table = IF Len(allowed) > 0 THEN allowed[1]
                                  ELSE "Facoltativi"]

MigrateItem(item, cur) ==
  IF item.table = "Obbligatori" \/ item.isCustom THEN item
  ELSE LET allowed == AllowedOfExam(item.examId, cur)
       IN [item EXCEPT !.table = IF Len(allowed) > 0 THEN allowed[1]
                                  ELSE "Facoltativi"]

\* the loop of migratePlan with "if (!exam) continue" left out: the item of an
\* exam that is gone is kept as one with no allowed table
MigratedList_KeepAll(p, cur) ==
  [i \in 1..Len(p) |->
     IF LacksExam(p[i]) THEN [p[i] EXCEPT !.table = "Facoltativi"]
     ELSE MigrateItem(p[i], cur)]

\* newPlan at the end of migratePlan's loop: items of a catalog exam that is
\* gone are skipped, the rest are re-tabled
MigratedList(p, cur) ==
  LET kept == SelectSeq(p, LAMBDA item : \/ item.table = "Obbligatori"
                                         \/ item.isCustom
                                         \/ HasExam(item.examId))
  IN [i \in 1..Len(kept) |-> MigrateItem(kept[i], cur)]

\* a migration that stops before the reassignment pass
migratePlan_NoRebalance(p, cur) == MigratedList(p, cur)

migratePlan(p, cur) == rebalanceBuckets(MigratedList(p, cur), cur)

\* migratePlan ends with a TypeError raised by rebalanceBuckets
migrateThrows(p, cur) == RebalanceThrows(MigratedList(p, cur))

MandatoryItem(ex) ==
  [id |-> Str(ReplaceSpaceRuns(ToLowerCase(ex.name), <<"-">>)),
   examId |-> null,
   name |-> Str(ex.name),
   cfu |-> ex.credits,
   table |-> "Obbligatori",
   isCustom |-> TRUE]

DefaultItems ==
  LET mandatory == rules.degree_requirements.common_rules.mandatory_exams
  IN [i \in 1..Len(mandatory) |-> MandatoryItem(mandatory[i])]

ExamItem(exam, table) ==
  [id |-> exam.id, examId |-> exam.id, name |-> exam.name, cfu |-> exam.cfu,
   table |-> table, isCustom |-> FALSE]

CustomItem(name, cfu, table, clock) ==
  [id |-> "custom-" \o ToString(clock), examId |-> null, name |-> name,
   cfu |-> NumberOf(ParseInt(cfu)), table |-> table, isCustom |-> TRUE]

\* addExam's guard switched off
AlreadyInPlan_Off(p, exam) == FALSE

\* addExam's guard: an entry already references the exam
AlreadyInPlan(p, exam) == \E i \in 1..Len(p) : p[i].examId = exam.id

\* moveExam's guard switched off
MoveRefused_Off(p, planItemId, newTable, cur) == FALSE

\* moveExam's guard: a catalog item may enter a curriculum table only if allowed
MoveRefused(p, planItemId, newTable, cur) ==
  LET i == FindItem(p, planItemId)
  IN /\ i # 0
     /\ ~p[i].isCustom
     /\ newTable \notin {"Facoltativi", "Obbligatori", "Fuori Piano"}
     /\ \A k \in 1..Len(AllowedOfExam(p[i].examId, cur)) :
          AllowedOfExam(p[i].examId, cur)[k] # newTable

\* removeExam's guard switched off
RemoveRefused_Off(p, planItemId) == FALSE

\* removeExam's guard: the first item with the id is a mandatory one
RemoveRefused(p, planItemId) ==
  LET i == FindItem(p, planItemId)
  IN i # 0 /\ p[i].table = "Obbligatori"

NoProbe == [fn |-> "none"]

Init ==
  /\ year = <<"2", "0", "2", "5", "/", "2", "0", "2", "6">>
  /\ curriculum = "FBA"
  /\ plan = <<>>
  /\ ret = "undefined"
  /\ probe = NoProbe

\* setYear made to drop the entries whose exam is not available in the year
setYearPlan_DropUnavailable(p, y) ==
  SelectSeq(p, LAMBDA e : \/ e.isCustom
                          \/ isExamAvailable(FindExam(e.examId).availability, y))

\* the Plan setYear leaves: it assigns this.year and nothing else
setYearPlan(p, y) == p

setYear(y) ==
  /\ year' = y
  /\ plan' = setYearPlan(plan, y)
  /\ UNCHANGED <<curriculum, ret, probe>>

setCurriculum(c) ==
  /\ curriculum' = c
  /\ plan' = migratePlan(plan, c)
  /\ ret' = IF migrateThrows(plan, c) THEN "TypeError" ELSE ret
  /\ UNCHANGED <<year, probe>>

\* the Plan addExam leaves
addExamPlan(p, exam, targetTable, cur) ==
  IF AlreadyInPlan(p, exam) THEN p
  ELSE LET allowed == getAllowedTables(exam.rawTable, cur)
           table == IF targetTable # null THEN targetTable
                    ELSE IF Len(allowed) > 0 THEN allowed[1]
                    ELSE "Facoltativi"
       IN rebalanceBuckets(Append(p, ExamItem(exam, table)), cur)

\* the value addExam returns
addExamReturn(p, exam) == IF AlreadyInPlan(p, exam) THEN "false" ELSE "true"

addExam(exam, targetTable) ==
  /\ AlreadyInPlan(plan, exam) \/ Len(plan) < MaxPlan
  /\ plan' = addExamPlan(plan, exam, targetTable, curriculum)
  /\ ret' = addExamReturn(plan, exam)
  /\ UNCHANGED <<year, curriculum, probe>>

\* the Plan addCustomExam leaves; clock is the value Date.now() returns
\* during the call
\* an addCustomExam that leaves the new entry in the table it was given
addCustomExamPlan_NoRebalance(p, name, cfu, table, clock, cur) ==
  Append(p, CustomItem(name, cfu, table, clock))

addCustomExamPlan(p, name, cfu, table, clock, cur) ==
  rebalanceBuckets(Append(p, CustomItem(name, cfu, table, clock)), cur)

addCustomExam(name, cfu, table, clock) ==
  /\ Len(plan) < MaxPlan
  /\ plan' = addCustomExamPlan(plan, name, cfu, table, clock, curriculum)
  /\ UNCHANGED <<year, curriculum, ret, probe>>

\* the Plan removeExam leaves
\* a removeExam that leaves the other entries where they were
removeExamPlan_NoRebalance(p, planItemId, cur) ==
  IF RemoveRefused(p, planItemId) THEN p
  ELSE SelectSeq(p, LAMBDA e : e.id # planItemId)

\* a removeExam that runs the pass and leaves the entry in the Plan
removeExamPlan_KeepsEntry(p, planItemId, cur) ==
  IF RemoveRefused(p, planItemId) THEN p ELSE rebalanceBuckets(p, cur)

removeExamPlan(p, planItemId, cur) ==
  IF RemoveRefused(p, planItemId) THEN p
  ELSE rebalanceBuckets(SelectSeq(p, LAMBDA e : e.id # planItemId), cur)

removeExam(planItemId) ==
  /\ plan' = removeExamPlan(plan, planItemId, curriculum)
  /\ UNCHANGED <<year, curriculum, ret, probe>>

\* the Plan moveExam leaves
\* a moveExam that leaves the entry in the table it was moved to
moveExamPlan_NoRebalance(p, planItemId, newTable, cur) ==
  IF MoveRefused(p, planItemId, newTable, cur) THEN p
  ELSE LET i == FindItem(p, planItemId)
       IN IF i = 0 THEN p ELSE [p EXCEPT ![i].table = newTable]

moveExamPlan(p, planItemId, newTable, cur) ==
  IF MoveRefused(p, planItemId, newTable, cur) THEN p
  ELSE LET i == FindItem(p, planItemId)
       IN rebalanceBuckets(IF i = 0 THEN p ELSE [p EXCEPT ![i].table = newTable],
                           cur)

\* the value moveExam returns
\* a moveExam that reports failure when no entry has the id
moveExamReturn_FalseWhenMissing(p, planItemId, newTable, cur) ==
  IF FindItem(p, planItemId) = 0 \/ MoveRefused(p, planItemId, newTable, cur)
  THEN "false" ELSE "true"

moveExamReturn(p, planItemId, newTable, cur) ==
  IF MoveRefused(p, planItemId, newTable, cur) THEN "false" ELSE "true"

moveExam(planItemId, newTable) ==
  /\ plan' = moveExamPlan(plan, planItemId, newTable, curriculum)
  /\ ret' = moveExamReturn(plan, planItemId, newTable, curriculum)
  /\ UNCHANGED <<year, curriculum, probe>>

\* the Plan initDefaults leaves
initDefaultsPlan(p, cur) == rebalanceBuckets(p \o DefaultItems, cur)

initDefaults ==
  /\ Len(plan) + Len(DefaultItems) <= MaxPlan
  /\ plan' = initDefaultsPlan(plan, curriculum)
  /\ UNCHANGED <<year, curriculum, ret, probe>>

\* reset without this.plan = []
reset_KeepingPlan ==
  /\ plan' = initDefaultsPlan(plan, curriculum)
  /\ UNCHANGED <<year, curriculum, ret, probe>>

reset ==
  /\ plan' = initDefaultsPlan(<<>>, curriculum)
  /\ UNCHANGED <<year, curriculum, ret, probe>>

SetYearOp == \E y \in Years : setYear(y)

SetCurriculumOp == \E c \in Curricula : setCurriculum(c)

AddExamOp ==
  \E i \in 1..Len(allExams), t \in TargetArgs : addExam(allExams[i], t)

AddCustomExamOp ==
  \E c \in CfuArgs, t \in CustomTableArgs, clock \in ClockArgs :
    addCustomExam("Ext", c, t, clock)

RemoveExamOp == \E id \in IdArgs : removeExam(id)

MoveExamOp == \E id \in IdArgs, t \in TableArgs : moveExam(id, t)

Next ==
  \/ SetYearOp
  \/ SetCurriculumOp
  \/ AddExamOp
  \/ AddCustomExamOp
  \/ RemoveExamOp
  \/ MoveExamOp
  \/ initDefaults
  \/ reset

Spec == Init /\ [][Next]_vars

(* ------------------ the pure queries, on drawn arguments -------------- *)

\* raw table tag strings: every string of at most MaxRaw characters
RawChars == {"A", "B", "C", "1", "2", "|", " "}

RawArgs == UNION {[1..n -> RawChars] : n \in 0..MaxRaw}

InitTables ==
  /\ year = <<"2", "0", "2", "5", "/", "2", "0", "2", "6">>
  /\ curriculum \in Curricula
  /\ plan = <<>>
  /\ ret = "undefined"
  /\ probe \in {[fn |-> "getAllowedTables", raw |-> r, done |-> FALSE, out |-> <<>>] :
                  r \in RawArgs}

CallGetAllowedTables ==
  /\ probe.fn = "getAllowedTables"
  /\ ~probe.done
  /\ probe' = [probe EXCEPT !.done = TRUE,
                            !.out = getAllowedTables(probe.raw, curriculum)]
  /\ UNCHANGED <<year, curriculum, plan, ret>>

NextTables == CallGetAllowedTables

SpecTables == InitTables /\ [][NextTables]_vars

\* availability descriptors found in the catalog, and variations of them
AvailArgs ==
  { <<>>,
    <<"e", "n", "a", "b", "l", "e", "d">>,
    <<"E", "n", "a", "b", "l", "e", "d">>,
    <<"d", "i", "s", "a", "b", "l", "e", "d">>,
    <<"D", "I", "S", "A", "B", "L", "E", "D">>,
    <<"F", "r", "o", "m", " ", "2", "0", "2", "0">>,
    <<"F", "r", "o", "m", " ", "2", "0", "2", "1", "/", "2", "0", "2", "2">>,
    <<"f", "r", "o", "m", " ", "2", "0", "2", "0">>,
    <<"F", "r", "o", "m", " ", "s", "o", "o", "n">>,
    <<"B", "i", "e", "n", "n", "i", "a", "l", " ", "E", "v", "e", "n">>,
    <<"B", "i", "e", "n", "n", "i", "a", "l", " ", "O", "d", "d">>,
    <<"b", "i", "e", "n", "n", "i", "a", "l", " ", "e", "v", "e", "n">>,
    <<"B", "i", "e", "n", "n", "i", "a", "l">>,
    <<"E", "v", "e", "n", " ", "y", "e", "a", "r", "s">>,
    <<"T", "B", "D">> }

AvailYears ==
  { <<"2", "0", "1", "8", "/", "2", "0", "1", "9">>,
    <<"2", "0", "1", "9", "/", "2", "0", "2", "0">>,
    <<"2", "0", "2", "0", "/", "2", "0", "2", "1">>,
    <<"2", "0", "2", "1", "/", "2", "0", "2", "2">>,
    <<"2", "0", "2", "5", "/", "2", "0", "2", "6">> }

InitAvail ==
  /\ year = <<"2", "0", "2", "5", "/", "2", "0", "2", "6">>
  /\ curriculum = "FBA"
  /\ plan = <<>>
  /\ ret = "undefined"
  /\ probe \in {[fn |-> "availability", avail |-> a, done |-> FALSE, at |-> <<>>,
                 available |-> TRUE, info |-> NullInfo] : a \in AvailArgs}

\* the host asks both queries about one exam in the active year
CallAvailability ==
  /\ probe.fn = "availability"
  /\ probe' = [probe EXCEPT !.done = TRUE,
                            !.at = year,
                            !.available = isExamAvailable(probe.avail, year),
                            !.info = getNextAvailabilityInfo(probe.avail, year)]
  /\ UNCHANGED <<year, curriculum, plan, ret>>

SetAvailYear == \E y \in AvailYears : setYear(y)

NextAvail ==
  \/ SetAvailYear
  \/ CallAvailability

SpecAvail == InitAvail /\ [][NextAvail]_vars

(* ------------- the host: a session, saved and loaded again ------------ *)

\* most calls a session makes before its state is saved
MaxCalls == 6

\* the calls a session makes, each at most once: onMounted's initDefaults,
\* toggleExam of an exam that is not in the Plan, addCustom with a number and
\* with text that is none in the credits field
HostCalls ==
  << [op |-> "initDefaults", exam |-> null, cfu |-> <<>>],
     [op |-> "addExam", exam |-> "Alg", cfu |-> <<>>],
     [op |-> "addExam", exam |-> "Net", cfu |-> <<>>],
     [op |-> "addExam", exam |-> "Sec", cfu |-> <<>>],
     [op |-> "addExam", exam |-> "Log", cfu |-> <<>>],
     [op |-> "addCustom", exam |-> null, cfu |-> <<"9">>],
     [op |-> "addCustom", exam |-> null, cfu |-> <<"x">>] >>

\* the orders in which a session makes at most most of its calls
OrdersUpTo(most) ==
  UNION {{o \in [1..n -> 1..Len(HostCalls)] : \A i, j \in 1..n : i # j => o[i] # o[j]} :
           n \in 0..(IF most < Len(HostCalls) THEN most ELSE Len(HostCalls))}

CallOrders == OrdersUpTo(MaxCalls)

\* the Plan one call leaves; the k-th call reads the clock as k
AfterCall(p, call, k, cur) ==
  CASE call.op = "initDefaults" -> initDefaultsPlan(p, cur)
    [] call.op = "addExam" -> addExamPlan(p, FindExam(call.exam), null, cur)
    [] call.op = "addCustom" -> addCustomExamPlan(p, "Ext", call.cfu, "Facoltativi", k, cur)

\* the Plan after the first k calls of an order, made on the empty Plan
RECURSIVE AfterCalls(_, _, _)
AfterCalls(order, k, cur) ==
  IF k = 0 THEN <<>>
  ELSE AfterCall(AfterCalls(order, k - 1, cur), HostCalls[order[k]], k, cur)

\* JSON.stringify of a number: NaN is written as null
StringifyNumber(x) == IF x = NaN THEN NullNumber ELSE x

\* JSON.parse(JSON.stringify(toSave)): strings, booleans and null come back as
\* they were, numbers as StringifyNumber wrote them
SavedState(y, cur, p) ==
  [year |-> y,
   curriculum |-> cur,
   plan |-> [i \in 1..Len(p) |-> [p[i] EXCEPT !.cfu = StringifyNumber(@)]]]

NothingSaved == [year |-> <<>>, curriculum |-> null, plan |-> <<>>]

\* a session: the host set the curriculum and made its calls in some order
InitHost ==
  /\ year = <<"2", "0", "2", "5", "/", "2", "0", "2", "6">>
  /\ curriculum \in Curricula
  /\ \E o \in CallOrders : plan = AfterCalls(o, Len(o), curriculum)
  /\ ret = "undefined"
  /\ probe = [fn |-> "host", stage |-> "running", stored |-> NothingSaved,
              validation |-> ThrownReport, before |-> ThrownReport]

\* refreshState: the Plan is validated and the state written to local storage
refreshState ==
  /\ probe.fn = "host"
  /\ probe.stage = "running"
  /\ probe' = [probe EXCEPT !.stage = "saved",
                            !.stored = SavedState(year, curriculum, plan),
                            !.validation = validate(plan, curriculum)]
  /\ UNCHANGED <<year, curriculum, plan, ret>>

\* onMounted with a saved state: a new PlanManager, setYear, setCurriculum
\* (which migrates the still empty Plan), the saved Plan put in place, and
\* refreshState
onMounted ==
  /\ probe.fn = "host"
  /\ probe.stage = "saved"
  /\ year' = probe.stored.year
  /\ curriculum' = probe.stored.curriculum
  /\ plan' = probe.stored.plan
  /\ ret' = "undefined"
  /\ probe' = [probe EXCEPT !.stage = "restored",
                            !.before = probe.validation,
                            !.stored = SavedState(year', curriculum', plan'),
                            !.validation = validate(plan', curriculum')]

NextHost ==
  \/ refreshState
  \/ onMounted

SpecHost == InitHost /\ [][NextHost]_vars

(* ------- the host: a state saved while the catalog had one more exam --- *)

\* most calls made by the session that wrote the saved state
MaxStaleCalls == 3

\* the entry of an exam that has since been taken out of exams.csv
StaleItem(t) ==
  [id |-> "Old", examId |-> "Old", name |-> "Old", cfu |-> 6, table |-> t,
   isCustom |-> FALSE]

\* the tables the earlier session can have left that entry in
StaleTables(cur) ==
  {"Obbligatori", "Facoltativi", IF cur = "FBA" THEN "1" ELSE "B"}

InsertAt(p, k, e) == SubSeq(p, 1, k - 1) \o <<e>> \o SubSeq(p, k, Len(p))

\* a Plan as rebalanceBuckets leaves it: the mandatory entries first
IsMandatoryFirst(p) ==
  \A i, j \in 1..Len(p) :
    (i < j /\ p[j].table = "Obbligatori") => p[i].table = "Obbligatori"

\* the Plans found in local storage: those of a short session, with the entry
\* of the exam that is gone at some place
StoredPlans(cur) ==
  LET sessions == {AfterCalls(o, Len(o), cur) : o \in OrdersUpTo(MaxStaleCalls)}
  IN {sp \in UNION {{InsertAt(p, k, StaleItem(t)) :
                       k \in 1..(Len(p) + 1), t \in StaleTables(cur)} :
                      p \in sessions} :
        IsMandatoryFirst(sp)}

\* the page is opened: a new PlanManager, and the state an earlier session saved
InitStale ==
  /\ year = <<"2", "0", "2", "5", "/", "2", "0", "2", "6">>
  /\ curriculum = "FBA"
  /\ plan = <<>>
  /\ ret = "undefined"
  /\ \E c \in Curricula, y \in Years : \E sp \in StoredPlans(c) :
       probe = [fn |-> "host", stage |-> "saved", stored |-> SavedState(y, c, sp),
                validation |-> ThrownReport, before |-> ThrownReport]

\* the host's setCurriculum: the engine's, then refreshState unless it raised
hostSetCurriculum(c) ==
  /\ probe.fn = "host"
  /\ probe.stage \in {"restored", "migrated"}
  /\ curriculum' = c
  /\ plan' = migratePlan(plan, c)
  /\ ret' = IF migrateThrows(plan, c) THEN "TypeError" ELSE ret
  /\ probe' = IF migrateThrows(plan, c) THEN [probe EXCEPT !.stage = "migrated"]
              ELSE [probe EXCEPT !.stage = "migrated",
                                 !.stored = SavedState(year, c, plan'),
                                 !.validation = validate(plan', c)]
  /\ UNCHANGED year

HostSetCurriculumOp == \E c \in Curricula : hostSetCurriculum(c)

NextStale ==
  \/ onMounted
  \/ HostSetCurriculumOp

SpecStale == InitStale /\ [][NextStale]_vars

(* ------------------------------ properties ---------------------------- *)

FixedTables == {"Obbligatori", "Facoltativi", "Fuori Piano"}

Range(f) == {f[i] : i \in DOMAIN f}

\* the tables getAllowedTables gives the exam of a catalog-backed entry
AllowedSet(item) ==
  IF item.isCustom \/ ~HasExam(item.examId) THEN {}
  ELSE Range(getAllowedTables(FindExam(item.examId).rawTable, curriculum))

\* the entries placed before position i
Before(i) == SubSeq(plan, 1, i - 1)

\* C1: every entry's table is Mandatory, Optional, OutOfPlan or, for a
\* catalog-backed entry, one of the tables getAllowedTables gives its exam
\* under the active curriculum; no entry holds any other table name.
C1_TablesValid ==
  \A i \in 1..Len(plan) :
    plan[i].table \in FixedTables \cup AllowedSet(plan[i])

\* C1 witness: under F94 a custom entry and a catalog entry have been placed,
\* the custom one in Optional and the catalog one in a curriculum table.
C1_Witness ==
  /\ curriculum = "F94"
  /\ \E i \in 1..Len(plan) : plan[i].isCustom /\ plan[i].table = "Facoltativi"
  /\ \E i \in 1..Len(plan) : ~plan[i].isCustom /\ plan[i].table \in {"A", "B", "C"}

\* C2: through addExam, addCustomExam, removeExam, moveExam, setYear and
\* setCurriculum every entry that initDefaults put in the Mandatory table
\* stays in the Plan and in the Mandatory table.
C2_MandatoryImmune ==
  [][(\/ SetYearOp
      \/ SetCurriculumOp
      \/ AddExamOp
      \/ AddCustomExamOp
      \/ RemoveExamOp
      \/ MoveExamOp)
     => \A i \in 1..Len(plan) :
          plan[i] \in Range(DefaultItems)
            => \E j \in 1..Len(plan') : plan'[j] = plan[i]]_vars

\* at most one entry references a given catalog exam
UniqueExamRefs(p) ==
  \A i, j \in 1..Len(p) : (i # j /\ p[i].examId # null) => p[i].examId # p[j].examId

\* C3: addExam of an exam some entry already references returns false and
\* leaves the Plan as it was; so no two entries ever reference the same exam.
C3_DuplicateAddRefused ==
  /\ \A k \in 1..Len(allExams), t \in TargetArgs :
       (\E i \in 1..Len(plan) : plan[i].examId = allExams[k].id)
         => /\ addExamPlan(plan, allExams[k], t, curriculum) = plan
            /\ addExamReturn(plan, allExams[k]) = "false"
  /\ UniqueExamRefs(plan)

\* C3 witness: a call has just returned false on a Plan that holds two catalog
\* exams, Alg among them, so that addExam of Alg is refused there.
C3_Witness ==
  /\ ret = "false"
  /\ \E i \in 1..Len(plan) : plan[i].examId = "Alg"
  /\ \E i \in 1..Len(plan) : plan[i].examId \notin {null, "Alg"}

\* C4: no two Plan entries have the same id.
C4_UniqueIds ==
  \A i, j \in 1..Len(plan) : i # j => plan[i].id # plan[j].id

\* C5: removeExam of an id that names a Mandatory-table entry, or no entry at
\* all, leaves the Plan (size, entries, order, tables) unchanged.
C5_RemoveNoOp ==
  \A id \in IdArgs :
    (\/ \A i \in 1..Len(plan) : plan[i].id # id
     \/ \E i \in 1..Len(plan) : plan[i].id = id /\ plan[i].table = "Obbligatori")
      => removeExamPlan(plan, id, curriculum) = plan

\* C5 witness: a Plan with a Mandatory entry next to catalog and custom
\* entries, on which removeExam of the mandatory id and of an unknown id act.
C5_Witness ==
  /\ \E i \in 1..Len(plan) : plan[i].table = "Obbligatori"
  /\ \E i \in 1..Len(plan) : plan[i].table # "Obbligatori" /\ ~plan[i].isCustom
  /\ \E i \in 1..Len(plan) : plan[i].table # "Obbligatori" /\ plan[i].isCustom
  /\ \A i \in 1..Len(plan) : plan[i].id # "ghost"

\* C6: moveExam of a catalog-backed entry to a destination that is none of
\* Optional, Mandatory, OutOfPlan and is not among the tables allowed to its
\* exam returns false and leaves the whole Plan unchanged.
C6_RefusedMoveNoChange ==
  \A id \in IdArgs, t \in TableArgs :
    (/\ FindItem(plan, id) # 0
     /\ ~plan[FindItem(plan, id)].isCustom
     /\ t \notin FixedTables
     /\ t \notin AllowedSet(plan[FindItem(plan, id)]))
      => /\ moveExamPlan(plan, id, t, curriculum) = plan
         /\ moveExamReturn(plan, id, t, curriculum) = "false"

\* C6 witness: a call has just returned false on a Plan whose only catalog
\* entry is in table 1, which cannot move to table B.
C6_Witness ==
  /\ ret = "false"
  /\ curriculum = "FBA"
  /\ \E i \in 1..Len(plan) : ~plan[i].isCustom /\ plan[i].table = "1"
  /\ Len(plan) < MaxPlan

CurriculumTables(cur) == IF cur = "FBA" THEN {"1", "2"} ELSE {"A", "B", "C"}

\* C7: getAllowedTables returns only tokens of the active curriculum's table
\* set, and under F94 they are ordered A before B before C.
C7_AllowedTablesSorted ==
  (probe.fn = "getAllowedTables" /\ probe.done) =>
    /\ \A k \in 1..Len(probe.out) : probe.out[k] \in CurriculumTables(curriculum)
    /\ curriculum = "F94" =>
         \A i, j \in 1..Len(probe.out) :
           i < j => Priority(probe.out[i]) <= Priority(probe.out[j])

\* C7 witness: "C|B|A" has been parsed under F94.
C7_Witness ==
  /\ probe.fn = "getAllowedTables"
  /\ probe.done
  /\ curriculum = "F94"
  /\ probe.raw = <<"C", "|", "B", "|", "A">>
  /\ probe.out = <<"A", "B", "C">>

\* entry i is processed by the pass when B and C have met their minimums and
\* the B+C sum is still short of the aggregate minimum, and it is allowed in B or C
AggregateCase(i) ==
  /\ curriculum = "F94"
  /\ plan[i].table # "Obbligatori"
  /\ ~plan[i].isCustom
  /\ AllowedSet(plan[i]) \cap {"B", "C"} # {}
  /\ SumCfu(Before(i), {"B"}) >= Limit(curriculum, "B")
  /\ SumCfu(Before(i), {"C"}) >= Limit(curriculum, "C")
  /\ SumCfu(Before(i), {"B", "C"}) < minSumBC(curriculum)

FirstOfBC(item) == IF "B" \in AllowedSet(item) THEN "B" ELSE "C"

\* C8, as stated: in the aggregate case the entry is placed in B or C, the
\* first of its allowed tables among B and C.
C8_AggregatePlacesInBC ==
  \A i \in 1..Len(plan) : AggregateCase(i) => plan[i].table = FirstOfBC(plan[i])

\* C8, amended: in the aggregate case the entry is placed in A when A is one
\* of its allowed tables and A is still below its minimum, and otherwise in
\* the first of its allowed tables among B and C; never in Optional or OutOfPlan.
C8_AggregatePlacesInBCUnlessA ==
  \A i \in 1..Len(plan) :
    AggregateCase(i) =>
      plan[i].table =
        IF /\ "A" \in AllowedSet(plan[i])
           /\ SumCfu(Before(i), {"A"}) < Limit(curriculum, "A")
        THEN "A"
        ELSE FirstOfBC(plan[i])

\* C8 witness: an entry entered B or C through the aggregate exception.
C8_Witness ==
  \E i \in 1..Len(plan) : AggregateCase(i) /\ plan[i].table \in {"B", "C"}

\* the curriculum tables that have no aggregate exception
PlainTables(cur) == IF cur = "FBA" THEN {"1", "2"} ELSE {"A"}

\* C9: an entry is in table 1, 2 (FBA) or A (F94) only if the credits placed
\* there by the entries before it are below the table's minimum.
C9_PlainTableCapacity ==
  \A i \in 1..Len(plan) :
    plan[i].table \in PlainTables(curriculum)
      => SumCfu(Before(i), {plan[i].table}) < Limit(curriculum, plan[i].table)

\* C9 witness: table 1 has reached its minimum and a later entry allowed in
\* table 1 was placed elsewhere.
C9_Witness ==
  /\ curriculum = "FBA"
  /\ \E i \in 1..Len(plan) :
       /\ plan[i].table # "Obbligatori"
       /\ "1" \in AllowedSet(plan[i])
       /\ SumCfu(Before(i), {"1"}) >= Limit(curriculum, "1")
       /\ plan[i].table \in {"Facoltativi", "Fuori Piano"}

\* C10: getNextAvailabilityInfo returns null whenever isExamAvailable
\* returns true for the same exam and year.
C10_NullWhenAvailable ==
  (probe.fn = "availability" /\ probe.done /\ probe.available)
    => probe.info = NullInfo

\* the text after "From " when it starts with a year number, <<>> otherwise
FromYearText(avail) ==
  IF /\ StartsWith(avail, <<"F", "r", "o", "m", " ">>)
     /\ Len(avail) > 5
     /\ IsDigit(avail[6])
  THEN SubSeq(avail, 6, Len(avail))
  ELSE <<>>

\* C11: for availability "From <year>" isExamAvailable is true exactly when
\* the start of the active year is at least the start of <year>, and when it
\* is false getNextAvailabilityInfo is the "available from <year>" message.
C11_FromYear ==
  (probe.fn = "availability" /\ probe.done /\ FromYearText(probe.avail) # <<>>) =>
    LET y == FromYearText(probe.avail)
    IN /\ probe.available <=> StartOf(probe.at)[1] >= StartOf(y)[1]
       /\ ~probe.available => probe.info = Message("available_from", y)

\* C11 witness: "From 2020" was asked about in 2018/2019: not available, and
\* the message is "available from 2020".
C11_Witness ==
  /\ probe.fn = "availability"
  /\ probe.done
  /\ probe.avail = <<"F", "r", "o", "m", " ", "2", "0", "2", "0">>
  /\ probe.at = <<"2", "0", "1", "8", "/", "2", "0", "1", "9">>
  /\ ~probe.available
  /\ probe.info = Message("available_from", <<"2", "0", "2", "0">>)

\* C12: after the state is saved and loaded into a new engine, validate
\* returns the report it returned before the state was saved.
C12_RoundTripReport ==
  (probe.fn = "host" /\ probe.stage = "restored") => probe.validation = probe.before

\* C13: in every state the operations reach, under either curriculum, every
\* entry's table is a key of the schema validate builds, so validate returns
\* a report and does not fail.
C13_ValidateCompletes ==
  /\ \A i \in 1..Len(plan) : plan[i].table \in SchemaSet(curriculum)
  /\ validate(plan, curriculum) # ThrownReport
  /\ ~validate(plan, curriculum).threw

\* C13 witness: a Plan with entries in Mandatory, in a curriculum table and out
\* of plan, for which validate returns a report with messages.
C13_Witness ==
  /\ \E i \in 1..Len(plan) : plan[i].table = "Fuori Piano"
  /\ \E i \in 1..Len(plan) : plan[i].table \in CurriculumTables(curriculum)
  /\ validate(plan, curriculum).messages # <<>>

\* the rules of the active curriculum whose check fails for the Plan
FailedRules ==
  {k \in 1..Len(progRules(curriculum)) :
     LET r == progRules(curriculum)[k]
     IN IF r.source = "BC"
        THEN Lt(SumCfu(plan, {"B", "C"}), r.min_sumBC_credits)
        ELSE Lt(SumCfu(plan, {r.source}), r.min_credits)}

MandatoryShort ==
  Lt(SumCfu(plan, {"Obbligatori"}),
     SumCredits(rules.degree_requirements.common_rules.mandatory_exams))

TotalShort ==
  Lt(SumCfu(plan, {t \in SchemaSet(curriculum) : t # "Fuori Piano"}),
     rules.degree_requirements.common_rules.total_credits)

HasMessage(report, kind) ==
  \E m \in 1..Len(report.messages) : report.messages[m].kind = kind

HostValidated == probe.fn = "host" /\ probe.stage \in {"saved", "restored"}

\* C14: the report holds one message for every failed check (each per-table
\* minimum of the active curriculum, the B+C sum, Mandatory below its minimum,
\* total below total_credits), and isValid is false exactly when a check
\* failed, that is when there is a message.
C14_EveryFailureReported ==
  HostValidated =>
    LET report == probe.validation
        rs == progRules(curriculum)
    IN /\ ~report.threw
       /\ Len(report.messages) =
            Cardinality(FailedRules) + (IF MandatoryShort THEN 1 ELSE 0)
                                     + (IF TotalShort THEN 1 ELSE 0)
       /\ \A k \in FailedRules :
            IF rs[k].source = "BC" THEN HasMessage(report, "sum_bc_missing")
            ELSE \E m \in 1..Len(report.messages) :
                   /\ report.messages[m].kind = "table_missing_cfu"
                   /\ report.messages[m].text[1] = rs[k].source
       /\ MandatoryShort => HasMessage(report, "mandatory_incomplete")
       /\ TotalShort => HasMessage(report, "total_cfu_status")
       /\ report.isValid <=> report.messages = <<>>
       /\ report.isValid <=> (FailedRules = {} /\ ~MandatoryShort /\ ~TotalShort)

\* C14 witness: under F94 a report with four messages: two tables and the B+C
\* sum are short and so is the total, while Mandatory is complete.
C14_Witness ==
  /\ HostValidated
  /\ curriculum = "F94"
  /\ Len(probe.validation.messages) = 4
  /\ HasMessage(probe.validation, "sum_bc_missing")
  /\ HasMessage(probe.validation, "total_cfu_status")
  /\ ~HasMessage(probe.validation, "mandatory_incomplete")
  /\ ~probe.validation.isValid

\* the entries of the Mandatory table, in Plan order
MandatoryOf(p) == SelectSeq(p, LAMBDA e : e.table = "Obbligatori")

\* C15: after setCurriculum and after setYear every entry that was in the
\* Mandatory table is still in the Plan and in the Mandatory table, with its
\* id and credits.
C15_MandatoryKept ==
  /\ \A c \in Curricula : MandatoryOf(migratePlan(plan, c)) = MandatoryOf(plan)
  /\ \A y \in Years : MandatoryOf(setYearPlan(plan, y)) = MandatoryOf(plan)

\* C15 witness: the curriculum has been changed on a Plan that holds the
\* default mandatory entry, a catalog exam put in the Mandatory table and a
\* catalog exam that migration re-tabled.
C15_Witness ==
  /\ curriculum = "F94"
  /\ \E i \in 1..Len(plan) : plan[i].table = "Obbligatori" /\ plan[i].isCustom
  /\ \E i \in 1..Len(plan) : plan[i].table = "Obbligatori" /\ ~plan[i].isCustom
  /\ \E i \in 1..Len(plan) : plan[i].table \in {"A", "B", "C"}

\* an entry without its table
Untabled(e) == [e EXCEPT !.table = ""]

Untable(p) == [i \in 1..Len(p) |-> Untabled(p[i])]

\* the mandatory entries of a list as they are, then its other entries in
\* their order, tables aside
MandatoryFirst(q) == Untable(MandatoryOf(q) \o SelectSeq(q, LAMBDA e : e.table # "Obbligatori"))

\* the lists the operations hand to rebalanceBuckets in the current state: the
\* Plan with an exam appended, with a custom exam appended, with the defaults
\* appended, with one entry removed, with one entry's table replaced
HandedToRebalance ==
  {Append(plan, ExamItem(allExams[k], t)) :
     k \in 1..Len(allExams), t \in {"Obbligatori", "Facoltativi", "X"}}
  \cup {Append(plan, CustomItem("Ext", c, t, clock)) :
          c \in CfuArgs, t \in CustomTableArgs, clock \in ClockArgs}
  \cup {plan \o DefaultItems}
  \cup {SelectSeq(plan, LAMBDA e : e.id # id) : id \in IdArgs}
  \cup {[plan EXCEPT ![i].table = t] : i \in 1..Len(plan), t \in TableArgs}

\* C16: the Plan is its Mandatory entries followed by its other entries, and
\* rebalanceBuckets keeps the Mandatory entries in their order and the other
\* entries in theirs.
C16_MandatoryFirstOrderKept ==
  [](/\ \A i, j \in 1..Len(plan) :
         (i < j /\ plan[j].table = "Obbligatori") => plan[i].table = "Obbligatori"
     /\ \A q \in HandedToRebalance :
         LET r == rebalanceBuckets(q, curriculum)
         IN /\ Untable(r) = MandatoryFirst(q)
            /\ MandatoryOf(r) = MandatoryOf(q))

\* C16 witness: a catalog exam put in the Mandatory table stands before a
\* custom entry and a catalog entry that are not mandatory.
C16_Witness ==
  /\ Len(plan) = 3
  /\ plan[1].table = "Obbligatori" /\ ~plan[1].isCustom
  /\ plan[2].table # "Obbligatori" /\ plan[2].isCustom
  /\ plan[3].table # "Obbligatori" /\ ~plan[3].isCustom

\* the ids the configured mandatory exam names give: lower case, white space
\* as a hyphen
ExpectedDefaultIds == <<"final-exam">>

\* the default Plan: one custom entry per configured mandatory exam, in
\* configuration order, in the Mandatory table, with the configured credits
IsDefaultPlan(p) ==
  LET mandatory == rules.degree_requirements.common_rules.mandatory_exams
  IN /\ Len(p) = Len(mandatory)
     /\ \A i \in 1..Len(p) :
          /\ p[i].isCustom
          /\ p[i].examId = null
          /\ p[i].table = "Obbligatori"
          /\ p[i].cfu = mandatory[i].credits
          /\ p[i].name = Str(mandatory[i].name)
          /\ p[i].id = ExpectedDefaultIds[i]

\* C17: reset, from any reachable state, leaves exactly the default Plan and
\* does not change the year or the curriculum.
C17_ResetToDefaults ==
  [][reset => (IsDefaultPlan(plan') /\ year' = year /\ curriculum' = curriculum)]_vars

\* C17 witness: the default Plan, under the curriculum and year that calls set,
\* after a session in which a call was refused on a Plan that held more.
C17_Witness ==
  /\ IsDefaultPlan(plan)
  /\ curriculum = "F94"
  /\ year # <<"2", "0", "2", "5", "/", "2", "0", "2", "6">>
  /\ ret = "false"

\* C18: setYear replaces the active year and leaves the Plan (entries, order,
\* tables) and the curriculum as they were; no entry stores an availability,
\* which isExamAvailable computes from the year at each call.
C18_SetYearFrame ==
  [][SetYearOp =>
       /\ year' \in Years
       /\ plan' = plan
       /\ curriculum' = curriculum
       /\ \A i \in 1..Len(plan') :
            DOMAIN plan'[i] = {"id", "examId", "name", "cfu", "table", "isCustom"}]_vars

\* C18 witness: the year is no longer the constructor's and the Plan holds
\* three entries, the exam whose availability is "disabled" among them.
C18_Witness ==
  /\ year = <<"2", "0", "2", "4", "/", "2", "0", "2", "5">>
  /\ Len(plan) = 3
  /\ \E i \in 1..Len(plan) : plan[i].examId = "Log"

\* the Plan without the non-mandatory entries whose exam is not in the catalog
WithoutLacking(p) == SelectSeq(p, LAMBDA e : ~LacksExam(e))

\* C19: setCurriculum on a Plan holding a non-mandatory catalog-backed entry
\* whose exam is not in the catalog ends without a TypeError; the entry is
\* left out and the Plan is what migration makes of the other entries.
C19_MigrationSkipsLacking ==
  /\ ret # "TypeError"
  /\ (probe.fn = "host" /\ probe.stage = "restored") =>
       \A c \in Curricula :
         /\ ~migrateThrows(plan, c)
         /\ \A i \in 1..Len(migratePlan(plan, c)) : ~LacksExam(migratePlan(plan, c)[i])
         /\ migratePlan(plan, c) = migratePlan(WithoutLacking(plan), c)
         /\ Len(migratePlan(plan, c)) = Len(WithoutLacking(plan))

\* C19 witness: the curriculum was changed on a loaded Plan of four entries,
\* one of them the non-mandatory entry of the exam that is gone; three are left.
C19_Witness ==
  /\ probe.fn = "host"
  /\ probe.stage = "migrated"
  /\ ret # "TypeError"
  /\ Len(plan) = 3
  /\ \A i \in 1..Len(plan) : plan[i].examId # "Old"
  /\ \E i \in 1..Len(plan) : plan[i].table \in CurriculumTables(curriculum)

\* tables a non-mandatory entry may have been left in by an earlier pass or
\* handed to the pass in: out of plan, and a table of the curriculum
PreviousTables(cur) == {"Fuori Piano", IF cur = "FBA" THEN "1" ELSE "B"}

\* the Plans that differ from p only in the table of entries that are not in
\* the Mandatory table, none of which is moved into it
SamePlansButTables(p, cur) ==
  {[i \in 1..Len(p) |->
      IF p[i].table = "Obbligatori" THEN p[i] ELSE [p[i] EXCEPT !.table = f[i]]] :
     f \in [1..Len(p) -> PreviousTables(cur)]}

\* C20: the tables rebalanceBuckets assigns depend on the order of the Plan,
\* the credits, custom flag and exam of each entry, the set of mandatory
\* entries, the curriculum and the rules only: Plans that differ in nothing but
\* the previous tables of non-mandatory entries are assigned alike.
C20_HistoryFree ==
  [](\A q \in SamePlansButTables(plan, curriculum) :
       rebalanceBuckets(q, curriculum) = rebalanceBuckets(plan, curriculum))

\* C20 witness: under F94 three non-mandatory entries, one out of plan and one
\* in B or C, so that previous tables differ from the assigned ones.
C20_Witness ==
  /\ curriculum = "F94"
  /\ Len(plan) = 3
  /\ \A i \in 1..Len(plan) : plan[i].table # "Obbligatori"
  /\ \E i \in 1..Len(plan) : plan[i].table = "Fuori Piano"
  /\ \E i \in 1..Len(plan) : plan[i].table \in {"B", "C"}

\* the credits of the entries of p at the positions idx, added as numbers
RECURSIVE EntrySum(_, _)
EntrySum(p, idx) ==
  IF idx = {} THEN 0
  ELSE LET i == CHOOSE k \in idx : \A j \in idx : j <= k
       IN Plus(EntrySum(p, idx \ {i}), p[i].cfu)

\* C21: in the report of validate, totalCredits is the sum of the credits of
\* the entries whose table is not OutOfPlan, and the "current" of every schema
\* table, OutOfPlan included, is the sum of the credits of the entries of
\* that table.
C21_ReportSums ==
  (HostValidated /\ ~probe.validation.threw) =>
    /\ probe.validation.totalCredits =
         EntrySum(plan, {i \in 1..Len(plan) : plan[i].table # "Fuori Piano"})
    /\ \A t \in SchemaSet(curriculum) :
         probe.validation.tables[t].current =
           EntrySum(plan, {i \in 1..Len(plan) : plan[i].table = t})

C21_Witness ==
  /\ HostValidated /\ ~probe.validation.threw
  /\ \E i \in 1..Len(plan) : plan[i].table = "Fuori Piano" /\ plan[i].cfu = 9
  /\ probe.validation.tables["Fuori Piano"].current = 9
  /\ probe.validation.totalCredits > 0
  /\ probe.validation.totalCredits = SumCfu(plan, {"Obbligatori", "Facoltativi", "1", "2"})

\* C22: every mutating operation ends with the reassignment pass, so the Plan
\* it leaves is a fixed point of rebalanceBuckets: one more pass changes no
\* entry's table and no entry's position.
C22_FixedPoint == rebalanceBuckets(plan, curriculum) = plan

C22_Witness ==
  /\ curriculum = "FBA" /\ ret = "true" /\ Len(plan) = MaxPlan
  /\ \E i, j \in 1..Len(plan) :
       i < j /\ plan[i].table = "Facoltativi" /\ plan[j].table = "Fuori Piano"
  /\ rebalanceBuckets(plan, curriculum) = plan

\* the credits the entries before position i have in the given tables
PlacedBefore(i, tables) ==
  EntrySum(plan, {j \in 1..(i - 1) : plan[j].table \in tables})

\* table t accepts the entry at position i: t is below its own minimum, or t
\* is B or C and B+C is below the aggregate minimum
Accepts(i, t) ==
  \/ Lt(PlacedBefore(i, {t}), Limit(curriculum, t))
  \/ t \in {"B", "C"} /\ Lt(PlacedBefore(i, {"B", "C"}), minSumBC(curriculum))

\* the table the reference gives the entry at position i
ReferenceTable(i) ==
  LET allowed == IF plan[i].isCustom THEN <<>>
                 ELSE AllowedOfExam(plan[i].examId, curriculum)
      hits == {k \in 1..Len(allowed) : Accepts(i, allowed[k])}
  IN IF hits # {} THEN allowed[CHOOSE k \in hits : \A h \in hits : k <= h]
     ELSE IF Lt(PlacedBefore(i, {"Facoltativi"}), freeLimit) THEN "Facoltativi"
     ELSE "Fuori Piano"

\* C23: the pass is a left-to-right greedy fold: in the Plan an operation
\* leaves, every non-Mandatory entry is in the first table of its allowed list
\* that the earlier entries leave below its minimum (or, for B and C, with
\* B+C below the aggregate minimum); when no table accepts it, as for every
\* custom entry, it is in Optional if the earlier entries leave Optional below
\* free_exams_credits and in OutOfPlan otherwise.
C23_GreedyReference ==
  (probe.fn = "host" /\ probe.stage \in {"running", "saved"}) =>
    \A i \in 1..Len(plan) :
      plan[i].table # "Obbligatori" => plan[i].table = ReferenceTable(i)

C23_Witness ==
  /\ probe.fn = "host" /\ probe.stage = "running" /\ curriculum = "F94"
  /\ \E i \in 1..Len(plan) :
       /\ plan[i].table = "B"
       /\ ~Lt(PlacedBefore(i, {"B"}), Limit(curriculum, "B"))
       /\ plan[i].table = ReferenceTable(i)
  /\ \E i \in 1..Len(plan) : plan[i].isCustom /\ plan[i].table = "Facoltativi"
  /\ \E i \in 1..Len(plan) : plan[i].table = "C"

\* the Plan after addExam(first) and then addExam(second), no target table
AddedInOrder(first, second) ==
  addExamPlan(addExamPlan(plan, FindExam(first), null, curriculum),
              FindExam(second), null, curriculum)

\* some entry of exam a or b has one table in p and another in q
TablesDiffer(p, q, a, b) ==
  \E i \in 1..Len(p), j \in 1..Len(q) :
    /\ p[i].examId \in {a, b}
    /\ p[i].examId = q[j].examId
    /\ p[i].table # q[j].table

\* C24: addExam does not commute: from every Plan of curriculum FBA that
\* holds neither Alg (12 credits, table 1) nor Log (6 credits, table 1) and
\* has nothing in table 1, adding the two in one order and in the other gives
\* Plans in which an entry has different tables.
C24_OrderMatters ==
  ( /\ curriculum = "FBA"
    /\ \A i \in 1..Len(plan) : plan[i].examId \notin {"Alg", "Log"}
    /\ SumCfu(plan, {"1"}) = 0 )
  => TablesDiffer(AddedInOrder("Alg", "Log"), AddedInOrder("Log", "Alg"), "Alg", "Log")

C24_Witness ==
  /\ curriculum = "FBA"
  /\ \E i \in 1..Len(plan) : plan[i].examId = "Sec" /\ plan[i].table = "2"
  /\ \A i \in 1..Len(plan) : plan[i].examId \notin {"Alg", "Log"}
  /\ \E i \in 1..Len(AddedInOrder("Alg", "Log")) :
       /\ AddedInOrder("Alg", "Log")[i].examId = "Log"
       /\ AddedInOrder("Alg", "Log")[i].table = "Facoltativi"
  /\ \E i \in 1..Len(AddedInOrder("Log", "Alg")) :
       /\ AddedInOrder("Log", "Alg")[i].examId = "Log"
       /\ AddedInOrder("Log", "Alg")[i].table = "1"

\* C25: after any mutating operation the credits of the entries in Optional
\* add up to no more than free_exams_credits, whatever the credits of the
\* entries are.
C25_OptionalWithinTarget ==
  (probe.fn = "host" /\ probe.stage \in {"running", "saved"}) =>
    ~Lt(freeLimit, EntrySum(plan, {i \in 1..Len(plan) : plan[i].table = "Facoltativi"}))

\* word occurs in text, letter case included
HasWord(text, word) ==
  \E k \in 1..(Len(text) - Len(word) + 1) : SubSeq(text, k, k + Len(word) - 1) = word

\* the text is "enabled" or "disabled" in any letter case, or starts with "From "
IsSwitchOrFrom(text) ==
  \/ ToLowerCase(text) \in {<<"e", "n", "a", "b", "l", "e", "d">>,
                            <<"d", "i", "s", "a", "b", "l", "e", "d">>}
  \/ FromYearText(text) # <<>>
  \/ (Len(text) >= 5 /\ SubSeq(text, 1, 5) = <<"F", "r", "o", "m", " ">>)

\* a biennial descriptor of the given parity word
IsBiennial(text, parity) ==
  /\ ~IsSwitchOrFrom(text)
  /\ HasWord(text, <<"B", "i", "e", "n", "n", "i", "a", "l">>)
  /\ HasWord(text, parity)

\* C26: for a text containing "Biennial" and "Even" isExamAvailable is true
\* exactly when the start of the active year is even, for one containing
\* "Biennial" and "Odd" (and not "Even") exactly when it is odd, and for a text
\* that is none of enabled, disabled, a From-descriptor or a biennial
\* descriptor it is true.
C26_Biennial ==
  (probe.fn = "availability" /\ probe.done) =>
    LET a == probe.avail
        even == StartOf(probe.at)[1] % 2 = 0
        isEvenText == IsBiennial(a, <<"E", "v", "e", "n">>)
        isOddText == IsBiennial(a, <<"O", "d", "d">>) /\ ~isEvenText
    IN /\ isEvenText => (probe.available <=> even)
       /\ isOddText => (probe.available <=> ~even)
       /\ (~IsSwitchOrFrom(a) /\ ~isEvenText /\ ~isOddText) => probe.available

C26_Witness ==
  /\ probe.fn = "availability" /\ probe.done
  /\ probe.avail = <<"B", "i", "e", "n", "n", "i", "a", "l", " ", "O", "d", "d">>
  /\ probe.at = <<"2", "0", "1", "9", "/", "2", "0", "2", "0">>
  /\ probe.available

\* C27: the keywords of the availability descriptor are matched whatever
\* their letter case: two texts that differ only in letter case get the same
\* answer from isExamAvailable in the same year.
C27_KeywordCaseIgnored ==
  (probe.fn = "availability" /\ probe.done) =>
    \A other \in AvailArgs :
      ToLowerCase(other) = ToLowerCase(probe.avail)
        => isExamAvailable(other, probe.at) = probe.available

C29_CustomOutsideCurriculumTables ==
  \A i \in 1..Len(plan) :
    plan[i].isCustom => plan[i].table \in {"Obbligatori", "Facoltativi", "Fuori Piano"}

C29_Witness ==
  /\ \E i \in 1..Len(plan) :
       /\ plan[i].isCustom
       /\ plan[i].table = "Fuori Piano"
       /\ FindItem(plan, plan[i].id) = i
       /\ moveExamReturn(plan, plan[i].id, "1", curriculum) = "true"
       /\ moveExamPlan(plan, plan[i].id, "1", curriculum)[i].table = "Fuori Piano"
  /\ \E i \in 1..Len(plan) : plan[i].isCustom /\ plan[i].table = "Facoltativi"
  /\ addCustomExamPlan(plan, "Ext", <<"6">>, "B", 1, curriculum)[Len(plan) + 1].table
       = "Fuori Piano"

\* C30: in a Plan that initDefaults started (the configured mandatory entries
\* come first), only they are in the Mandatory table: every entry in
\* Mandatory is one of the configured mandatory exams.
C30_OnlyDefaultsInMandatory ==
  (Len(plan) >= Len(DefaultItems) /\ SubSeq(plan, 1, Len(DefaultItems)) = DefaultItems)
    => \A i \in 1..Len(plan) :
         plan[i].table = "Obbligatori"
           => \E k \in 1..Len(DefaultItems) : plan[i] = DefaultItems[k]

\* the Plan after addExam(exam) with no target table and then removeExam(exam.id)
AddedThenRemoved(exam) ==
  removeExamPlan(addExamPlan(plan, exam, null, curriculum), exam.id, curriculum)

OtherCurriculum == CHOOSE c \in Curricula : c # curriculum

OptionalShort ==
  Lt(EntrySum(plan, {i \in 1..Len(plan) : plan[i].table = "Facoltativi"}),
     rules.degree_requirements.common_rules.free_exams_credits)

\* C34: validate reports free_exams_credits as the minimum of Optional and
\* never checks it: no message names Optional, and the report is valid
\* whenever the curriculum rules, the aggregate rule, the Mandatory check and
\* the total check pass, also when Optional is below its minimum.
C34_OptionalMinimumUnchecked ==
  (HostValidated /\ ~probe.validation.threw) =>
    LET report == probe.validation
    IN /\ report.tables["Facoltativi"].min =
            rules.degree_requirements.common_rules.free_exams_credits
       /\ \A m \in 1..Len(report.messages) :
            ~(/\ report.messages[m].kind = "table_missing_cfu"
              /\ report.messages[m].text[1] = "Facoltativi")
       /\ (FailedRules = {} /\ ~MandatoryShort /\ ~TotalShort) => report.isValid

C34_Witness ==
  /\ HostValidated /\ ~probe.validation.threw
  /\ OptionalShort
  /\ probe.validation.tables["Facoltativi"].current = 9
  /\ probe.validation.isValid
  /\ probe.validation.messages = <<>>

====
